---- MODULE Spec2Model ----
(***************************************************************************)
(* git-backport (git-bp): the commit-list codec (src/utils/commits.rs),    *)
(* the topological sorter and the sort command (src/commands/sort.rs) and  *)
(* the fix command (src/commands/fix.rs), each as a state machine over one *)
(* git repository that answers the subprocess queries the code issues.     *)
(* Strings are TLA+ strings; an Option<String> is a sequence of length 0   *)
(* (None) or 1 (Some).                                                     *)
(***************************************************************************)
EXTENDS Integers, Sequences, FiniteSets, TLC

VARIABLES
  head,            \* the commit HEAD points to (an id of Repo)
  file,            \* content of the commit-list file
  file0,           \* content of the commit-list file when the command started
  pc,              \* where the running command or pipeline stands
  modelines,       \* read_from_file: the leading modelines
  entries,         \* read_from_file: the commit entries
  reads,           \* the results of the successful reads so far, oldest first
  args,            \* the command line of the running command
  ancestry,        \* sort: what `git rev-list --topo-order <ref>` answers
  commit_infos,    \* sort: the input records (get_commits)
  commit_list,     \* sorter: the lines of the ancestry
  input_set,       \* sorter: the targets not yet consumed
  sorted_commits,  \* sorter: the output so far
  idx,             \* sorter: number of ancestry lines walked
  sorter_result,   \* sorter: None, or what sort_commits_topologically returned
  consumed_at,     \* sorter: target -> index of the ancestry line that consumed it
  run,             \* sort: 1 on the first invocation, 2 on the repeated one
  first_outcome,   \* sort: outcome of the first invocation
  pending,         \* fix: commits of (base, HEAD] not yet processed
  originals,       \* fix: originals of the current commit not yet processed
  fix_commits,     \* fix: the fixes collected so far
  fix_hits,        \* fix: <<original, hash>> for every hit of a fix search
  returned,        \* fix: <<original, hash>> for every fix find_fixes_for_commit returned
  warn_log,        \* fix: the warnings logged, in order
  record,          \* enrichment: the CommitInfo being enriched
  record0,         \* enrichment: the CommitInfo as it was constructed
  calls,           \* enrichment: the calls made on record, oldest first
  stdout,          \* lines printed to stdout
  result           \* None while running, then what the command returned

(***************************************************************************)
(* Rust string primitives used by the code                                 *)
(***************************************************************************)
None == <<>>

Some(x) == <<x>>

Char(s, i) == SubSeq(s, i, i)

\* char::is_whitespace, restricted to the blanks that occur in the inputs
IsWhitespace(c) == c \in {" ", "\t", "\n", "\r"}

SetMin(S) == CHOOSE x \in S : \A y \in S : x <= y

SetMax(S) == CHOOSE x \in S : \A y \in S : y <= x

\* str::starts_with
starts_with(s, p) == Len(p) <= Len(s) /\ SubSeq(s, 1, Len(p)) = p

\* str::strip_prefix, on a string known to start with p
strip_prefix(s, p) == SubSeq(s, Len(p) + 1, Len(s))

\* str::contains; also how `git log --grep` matches a fixed pattern in a line
contains(s, p) ==
  \E i \in 1..(Len(s) - Len(p) + 1) : SubSeq(s, i, i + Len(p) - 1) = p

\* Index of the first non-blank character of s from i on, Len(s) + 1 if none
RECURSIVE FirstNonBlank(_, _)
FirstNonBlank(s, i) ==
  IF i > Len(s) \/ ~IsWhitespace(Char(s, i)) THEN i ELSE FirstNonBlank(s, i + 1)

\* Index of the first blank character of s from i on, Len(s) + 1 if none
RECURSIVE FirstBlank(_, _)
FirstBlank(s, i) ==
  IF i > Len(s) \/ IsWhitespace(Char(s, i)) THEN i ELSE FirstBlank(s, i + 1)

\* Index of the last non-blank character of s up to i, 0 if none
RECURSIVE LastNonBlank(_, _)
LastNonBlank(s, i) ==
  IF i < 1 \/ ~IsWhitespace(Char(s, i)) THEN i ELSE LastNonBlank(s, i - 1)

\* Index of the first "\n" of s from i on, Len(s) + 1 if none
RECURSIVE FirstNewline(_, _)
FirstNewline(s, i) ==
  IF i > Len(s) \/ Char(s, i) = "\n" THEN i ELSE FirstNewline(s, i + 1)

\* str::trim
trim(s) ==
  LET b == FirstNonBlank(s, 1)
  IN  IF b > Len(s) THEN "" ELSE SubSeq(s, b, LastNonBlank(s, Len(s)))

\* str::split_whitespace
RECURSIVE split_whitespace(_)
split_whitespace(s) ==
  LET b == FirstNonBlank(s, 1)
      e == FirstBlank(s, b)
  IN  IF b > Len(s) THEN <<>>
      ELSE <<SubSeq(s, b, e - 1)>> \o split_whitespace(SubSeq(s, e, Len(s)))

\* [String]::join
RECURSIVE join(_, _)
join(parts, sep) ==
  IF parts = <<>> THEN ""
  ELSE IF Len(parts) = 1 THEN parts[1]
  ELSE parts[1] \o sep \o join(Tail(parts), sep)

\* str::lines: split at "\n"; a final line without "\n" is a line, a final
\* "\n" opens no empty line ("\r\n" endings do not occur in the inputs)
RECURSIVE lines(_)
lines(content) ==
  LET nl == FirstNewline(content, 1)
  IN  IF content = "" THEN <<>>
      ELSE IF nl > Len(content) THEN <<content>>
      ELSE <<SubSeq(content, 1, nl - 1)>>
             \o lines(SubSeq(content, nl + 1, Len(content)))

Range(f) == {f[i] : i \in DOMAIN f}

\* Vec::contains
InSeq(x, s) == \E i \in 1..Len(s) : s[i] = x

(***************************************************************************)
(* The git repository the subprocess queries are answered from: object     *)
(* hashes (40 hex digits), Gerrit Change-Ids ("I" and 40 hex digits) and    *)
(* commit messages.                                                        *)
(***************************************************************************)
H_ROOT == "0a0a0a0000000000000000000000000000000000"
H_M1 == "1b1b1b1111111111111111111111111111111111"

H_O1 == "deadbee1aaaaaaaaaaaaaaaaaaaaaaaaaaaaaaaa"
H_D2 == "deadbee9bbbbbbbbbbbbbbbbbbbbbbbbbbbbbbbb"

H_F4 == "f4f4f4f444444444444444444444444444444444"
H_O2 == "c0ffee2ccccccccccccccccccccccccccccccccc"

H_F1 == "f1f1f1f111111111111111111111111111111111"
H_F2 == "f2f2f2f222222222222222222222222222222222"

H_F3 == "f3f3f3f333333333333333333333333333333333"
H_R1 == "a1a1a1a555555555555555555555555555555555"

H_R2 == "a2a2a2a666666666666666666666666666666666"
H_B1 == "b1b1b1b777777777777777777777777777777777"

H_B2 == "b2b2b2b888888888888888888888888888888888"
H_P1 == "e1e1e1e999999999999999999999999999999999"

H_P2 == "e2e2e2eddddddddddddddddddddddddddddddddd"

H_P3 == "e3e3e3eeeeeeeeeeeeeeeeeeeeeeeeeeeeeeeeee"

CID_A == "Iaaaa000000000000000000000000000000000000"

CID_B == "Ibbbb000000000000000000000000000000000000"
CID_C == "Icccc000000000000000000000000000000000000"

CID_F1 == "If1f1000000000000000000000000000000000000"
CID_F3 == "If3f3000000000000000000000000000000000000"

CID_F4 == "If4f4000000000000000000000000000000000000"
CID_R1 == "Ia1a1000000000000000000000000000000000000"


\* The commit graph. main: ROOT-M1-O1-F4-O2-F1-F2-F3-R1-R2; the working branch
\* forks at F4: F4-B1-B2-P1-P2-P3; side: ROOT-D2. `time` is the commit date.
Repo == [
  ROOT |-> [hash |-> H_ROOT, parent |-> None, time |-> 1,
            message |-> <<"Initial commit">>],
  M1   |-> [hash |-> H_M1, parent |-> Some("ROOT"), time |-> 2,
            message |-> <<"Tidy", "", "Change-Id: I123">>],
  O1   |-> [hash |-> H_O1, parent |-> Some("M1"), time |-> 3,
            message |-> <<"Add parser", "", "Change-Id: " \o CID_A>>],
  F4   |-> [hash |-> H_F4, parent |-> Some("O1"), time |-> 4,
            message |-> <<"Fix parser crash", "",
                          "Fixes: deadbee1aaaa (\"Add parser\")",
                          "Change-Id: " \o CID_F4>>],
  O2   |-> [hash |-> H_O2, parent |-> Some("F4"), time |-> 5,
            message |-> <<"Add sorter", "", "Change-Id: " \o CID_B>>],
  F1   |-> [hash |-> H_F1, parent |-> Some("O2"), time |-> 6,
            message |-> <<"Fix parser and sorter", "", "Fixes: deadbee",
                          "Fixes: c0ffee2", "Change-Id: " \o CID_F1>>],
  F2   |-> [hash |-> H_F2, parent |-> Some("F1"), time |-> 7,
            message |-> <<"Fix parser again", "", "  Fixes: deadbee1">>],
  F3   |-> [hash |-> H_F3, parent |-> Some("F2"), time |-> 8,
            message |-> <<"Fix sorter order", "", "Fixes: c0ffee2",
                          "Change-Id: " \o CID_F3>>],
  R1   |-> [hash |-> H_R1, parent |-> Some("F3"), time |-> 9,
            message |-> <<"Document parser", "", "Follow-up to deadbee1.",
                          "Change-Id: " \o CID_R1>>],
  R2   |-> [hash |-> H_R2, parent |-> Some("R1"), time |-> 10,
            message |-> <<"Tweak sorter", "", "- Fixes: c0ffee2 (in part)">>],
  B1   |-> [hash |-> H_B1, parent |-> Some("F4"), time |-> 11,
            message |-> <<"Add sorter", "", "Change-Id: " \o CID_B,
                          "(cherry picked from commit " \o H_O2 \o ")">>],
  B2   |-> [hash |-> H_B2, parent |-> Some("B1"), time |-> 12,
            message |-> <<"Rework parser and sorter", "",
                          "Change-Id: " \o CID_C,
                          "Was-Change-Id: " \o CID_A,
                          "Was-Change-Id: " \o CID_B>>],
  P1   |-> [hash |-> H_P1, parent |-> Some("B2"), time |-> 13,
            message |-> <<"Fix parser again", "", "Fixes: deadbee1",
                          "(cherry picked from commit " \o H_F2 \o ")">>],
  P2   |-> [hash |-> H_P2, parent |-> Some("P1"), time |-> 14,
            message |-> <<"Fix sorter order", "", "Fixes: c0ffee2",
                          "Change-Id: " \o CID_F3>>],
  D2   |-> [hash |-> H_D2, parent |-> Some("ROOT"), time |-> 15,
            message |-> <<"Side work">>],
  P3   |-> [hash |-> H_P3, parent |-> Some("P2"), time |-> 16,
            message |-> <<"Squash parser work", "",
                          "Change-Id: " \o CID_A,
                          "Was-Change-Id: " \o CID_A,
                          "Was-Change-Id: " \o CID_B,
                          "Was-Change-Id: " \o CID_B>>]
]

Ids == DOMAIN Repo

\* The branch names; HEAD is the variable head
Refs == [main |-> "R2", v1 |-> "F2", side |-> "D2"]

\* A revision argument names the commit of a ref, or the one object whose hash
\* it abbreviates; anything else (unknown, ambiguous) names nothing
Resolve(rev) ==
  IF rev = "HEAD" THEN Some(head)
  ELSE IF rev \in DOMAIN Refs THEN Some(Refs[rev])
  ELSE LET m == {id \in Ids : starts_with(Repo[id].hash, rev)}
       IN  IF rev # "" /\ Cardinality(m) = 1
           THEN Some(CHOOSE id \in m : TRUE) ELSE None

RECURSIVE Ancestors(_)
Ancestors(id) ==
  {id} \cup (IF Repo[id].parent = None THEN {} ELSE Ancestors(Repo[id].parent[1]))

\* The commits of S by commit date, newest first (git log's order)
RECURSIVE NewestFirst(_)
NewestFirst(S) ==
  IF S = {} THEN <<>>
  ELSE LET n == CHOOSE x \in S : \A y \in S : Repo[y].time <= Repo[x].time
       IN  <<n>> \o NewestFirst(S \ {n})

Reverse(s) == [i \in 1..Len(s) |-> s[Len(s) + 1 - i]]

\* What git writes to stderr when it cannot make sense of its arguments
GitFatal == "fatal: bad revision\n"

\* What a subprocess returns: exit status, stdout and stderr
Out(ok, text) == [ok |-> ok, stdout |-> text, stderr |-> ""]

\* A subprocess that failed on its arguments
Failed == [ok |-> FALSE, stdout |-> "", stderr |-> GitFatal]

\* stdout of a listing: one hash per line
HashLines(ids) ==
  IF ids = <<>> THEN ""
  ELSE join([i \in 1..Len(ids) |-> Repo[ids[i]].hash], "\n") \o "\n"

\* git rev-list --reverse <base>..<tip>
git_rev_list_reverse(base, tip) ==
  IF Resolve(base) = None \/ Resolve(tip) = None THEN Failed
  ELSE Out(TRUE, HashLines(Reverse(NewestFirst(
         Ancestors(Resolve(tip)[1]) \ Ancestors(Resolve(base)[1])))))

\* A commit message matches --grep when one of its lines contains the pattern
Matches(id, pattern) ==
  \E i \in 1..Len(Repo[id].message) : contains(Repo[id].message[i], pattern)

\* git log --format=%H --grep <pattern> <tip>
git_log_grep(pattern, tip) ==
  IF Resolve(tip) = None THEN Failed
  ELSE Out(TRUE, HashLines(NewestFirst(
         {id \in Ancestors(Resolve(tip)[1]) : Matches(id, pattern)})))

\* git log --format=%H --grep <pattern> <base>..<tip>
git_log_grep_range(pattern, base, tip) ==
  IF Resolve(base) = None \/ Resolve(tip) = None THEN Failed
  ELSE Out(TRUE, HashLines(NewestFirst(
         {id \in Ancestors(Resolve(tip)[1]) \ Ancestors(Resolve(base)[1]) :
            Matches(id, pattern)})))

\* The tracked files of the work tree, each with the newest commit of the
\* history that touches it. An argument that is no revision but a tracked
\* file is taken as a path: rev-parse echoes it, log limits the history to it.
WorkTree == [README |-> "ROOT"]

\* The commit `git log -n 1 <rev>` shows
LogTarget(rev) ==
  IF rev \in DOMAIN WorkTree THEN Some(WorkTree[rev]) ELSE Resolve(rev)

\* git log --format=%B -n 1 <rev>
git_log_body(rev) ==
  IF LogTarget(rev) = None THEN Failed
  ELSE Out(TRUE, join(Repo[LogTarget(rev)[1]].message, "\n") \o "\n\n")

\* git log --format=%s -n 1 <rev>
git_log_subject(rev) ==
  IF LogTarget(rev) = None THEN Failed
  ELSE Out(TRUE, Repo[LogTarget(rev)[1]].message[1] \o "\n")

\* git rev-parse <rev>
git_rev_parse(rev) ==
  IF rev \in DOMAIN WorkTree THEN Out(TRUE, rev \o "\n")
  ELSE IF Resolve(rev) = None THEN Failed
  ELSE Out(TRUE, Repo[Resolve(rev)[1]].hash \o "\n")

\* git merge-base --is-ancestor <rev> HEAD
git_is_ancestor(rev) ==
  IF Resolve(rev) = None THEN Failed
  ELSE Out(Resolve(rev)[1] \in Ancestors(head), "")

(***************************************************************************)
(* CommitInfo and the commit-list codec (src/utils/commits.rs)             *)
(***************************************************************************)
\* Length of a Gerrit Change-Id token
ChangeIdLen == 41

\* Length of a full SHA-1 hash
FullHashLen == 40

\* CommitInfo::from_hash
from_hash(hash) == [hash |-> hash, change_id |-> None, title |-> None]

\* The test parse_line applies to every token after the hash
LooksLikeChangeId(part) == starts_with(part, "I") /\ Len(part) = ChangeIdLen

\* Mutant of parse_line: a line that holds a hash and nothing else is an error
parse_line_needs_title(line0) ==
  IF Len(split_whitespace(line0)) >= 2
  THEN [ok |-> TRUE,
        commit |-> [hash |-> split_whitespace(line0)[1], change_id |-> None,
                    title |-> Some(join(Tail(split_whitespace(line0)), " "))]]
  ELSE [ok |-> FALSE, commit |-> from_hash("")]

\* CommitInfo::parse_line. change_id is assigned once per matching token, so the
\* last matching token is the one that stays.
parse_line(line0) ==
  LET line == trim(line0)
      parts == split_whitespace(line)
  IN  IF line = "" \/ parts = <<>>
      THEN [ok |-> FALSE, commit |-> from_hash("")]
      ELSE LET rest == Tail(parts)
               ids == {i \in 1..Len(rest) : LooksLikeChangeId(rest[i])}
               title_parts == SelectSeq(rest, LAMBDA t : ~LooksLikeChangeId(t))
           IN  [ok |-> TRUE,
                commit |->
                  [hash |-> parts[1],
                   change_id |-> IF ids = {} THEN None ELSE Some(rest[SetMax(ids)]),
                   title |-> IF title_parts = <<>> THEN None
                             ELSE Some(join(title_parts, " "))]]

\* CommitInfo::to_line
to_line(c) == join(<<c.hash>> \o c.change_id \o c.title, " ")

\* Mutant of expand_hash_to_full: the answer is taken without looking at the
\* exit status or at its length
expand_hash_unchecked(c) ==
  IF Len(c.hash) = FullHashLen THEN c
  ELSE [c EXCEPT !.hash = trim(git_rev_parse(c.hash).stdout)]

\* CommitInfo::expand_hash_to_full
expand_hash_to_full(c) ==
  IF Len(c.hash) = FullHashLen THEN c
  ELSE LET output == git_rev_parse(c.hash)
           full_hash == trim(output.stdout)
       IN  IF output.ok /\ Len(full_hash) = FullHashLen
           THEN [c EXCEPT !.hash = full_hash] ELSE c

\* Mutant of fetch_title_if_missing: the subject replaces a title that is set
fetch_title_overwriting(c0) ==
  LET c == expand_hash_to_full(c0)
      output == git_log_subject(c.hash)
      title == trim(output.stdout)
  IN  IF output.ok /\ title # "" THEN [c EXCEPT !.title = Some(title)] ELSE c

\* CommitInfo::fetch_title_if_missing
fetch_title_if_missing(c0) ==
  LET c == expand_hash_to_full(c0)
  IN  IF c.title # None THEN c
      ELSE LET output == git_log_subject(c.hash)
               title == trim(output.stdout)
           IN  IF output.ok /\ title # "" THEN [c EXCEPT !.title = Some(title)]
               ELSE c

\* CommitInfo::fetch_change_id_if_missing: the first body line that starts
\* with "Change-Id: I"
fetch_change_id_if_missing(c) ==
  IF c.change_id # None THEN c
  ELSE LET output == git_log_body(c.hash)
           body == lines(output.stdout)
           hits == {i \in 1..Len(body) : starts_with(body[i], "Change-Id: I")}
       IN  IF output.ok /\ hits # {}
           THEN [c EXCEPT !.change_id =
                   Some(trim(strip_prefix(body[SetMin(hits)], "Change-Id: ")))]
           ELSE c

\* CommitEntry::with_comments
with_comments(commit, comments) == [comments |-> comments, commit |-> commit]

\* CommitEntry::to_lines
to_lines(e) == e.comments \o <<to_line(e.commit)>>

IsModeline(l) ==
  LET line == trim(l)
  IN  starts_with(line, "# vim:") \/ starts_with(line, "# vi:")

\* read_from_file, first loop: the number of leading modelines
RECURSIVE ModelineCount(_, _)
ModelineCount(ls, n) ==
  IF n < Len(ls) /\ IsModeline(ls[n + 1]) THEN ModelineCount(ls, n + 1) ELSE n

\* read_from_file, second loop, from line line_idx (0-based) on: the entries,
\* with the comments pending when the lines run out
RECURSIVE ReadLines(_, _, _, _)
ReadLines(ls, line_idx, ents, current_comments) ==
  IF line_idx >= Len(ls)
  THEN [entries |-> ents, current_comments |-> current_comments]
  ELSE LET raw == ls[line_idx + 1]
           line == trim(raw)
           parsed == parse_line(line)
       IN  IF line = ""
           THEN IF current_comments # <<>> \/ line_idx + 1 < Len(ls)
                THEN ReadLines(ls, line_idx + 1, ents, Append(current_comments, raw))
                ELSE ReadLines(ls, line_idx + 1, ents, current_comments)
           ELSE IF starts_with(line, "#")
           THEN ReadLines(ls, line_idx + 1, ents, Append(current_comments, raw))
           ELSE IF parsed.ok
           THEN ReadLines(ls, line_idx + 1,
                          Append(ents, with_comments(parsed.commit, current_comments)),
                          <<>>)
           ELSE ReadLines(ls, line_idx + 1, ents, Append(current_comments, raw))

\* CommitsParser::read_from_file, on the file's content
read_from_file(content) ==
  LET ls == lines(content)
      n == ModelineCount(ls, 0)
      r == ReadLines(ls, n, <<>>, <<>>)
  IN  [ok |-> r.entries # <<>>,
       modelines |-> SubSeq(ls, 1, n),
       entries |-> r.entries]

DefaultModeline == "# vim: ft=gitbackportcommits"

\* CommitsParser::write_to_file: the content written
write_to_file(mls, ents) ==
  LET enriched == [i \in 1..Len(ents) |->
                     [ents[i] EXCEPT !.commit =
                        fetch_title_if_missing(fetch_change_id_if_missing(@))]]
      RECURSIVE Flat(_)
      Flat(es) == IF es = <<>> THEN <<>> ELSE to_lines(Head(es)) \o Flat(Tail(es))
      all_lines == (IF mls = <<>> THEN <<DefaultModeline>> ELSE mls) \o Flat(enriched)
  IN  join(all_lines, "\n") \o "\n"

\* CommitsParser::extract_hashes
extract_hashes(commits) == [i \in 1..Len(commits) |-> commits[i].hash]


(***************************************************************************)
(* Bounds and inputs                                                       *)
(***************************************************************************)
\* Lines of an input commit-list file of the codec pipeline
MaxFileLines == 3

\* Writes of the codec pipeline (each followed by a read)
MaxRoundTrips == 2

SeqsUpTo(S, n) == UNION {[1..k -> S] : k \in 0..n}

\* The lines input files are made of: modelines, comments, blanks and commit
\* lines (abbreviated, enriched, with two Change-Id-shaped tokens, ambiguous)
LinePool == {
  "# vim: ft=gitbackportcommits",
  "# picked for v2",
  "",
  "1b1b1b1",
  "deadbee1 " \o CID_A \o "  Add\tparser ",
  "c0ffee2 " \o CID_A \o " " \o CID_B \o " Add sorter",
  "deadbee Unknown thing"
}

FileOf(ls) == join(ls, "\n") \o "\n"

CodecFiles == {FileOf(ls) : ls \in SeqsUpTo(LinePool, MaxFileLines)}

vars == <<head, file, file0, pc, modelines, entries, reads, args, ancestry,
          commit_infos, commit_list, input_set, sorted_commits, idx, sorter_result,
          consumed_at, run, first_outcome, pending, originals, fix_commits,
          fix_hits, returned, warn_log, record, record0, calls, stdout,
          result>>

codecVars == <<modelines, entries, reads>>

sortVars == <<ancestry, commit_infos, commit_list, input_set, sorted_commits, idx,
              sorter_result, consumed_at, run, first_outcome>>

fixVars == <<pending, originals, fix_commits, fix_hits, returned, warn_log>>

enrichVars == <<record, record0, calls>>

\* Result<(), Box<dyn Error>> of a command: Ok(()) or Err(message, detail)
Ok == [ok |-> TRUE, error |-> "", detail |-> {}]

Err(e, d) == [ok |-> FALSE, error |-> e, detail |-> d]

CodecIdle == modelines = <<>> /\ entries = <<>> /\ reads = <<>>

SortIdle ==
  /\ ancestry = Out(TRUE, "") /\ commit_infos = <<>> /\ commit_list = <<>>
  /\ input_set = {}
  /\ sorted_commits = <<>> /\ idx = 0 /\ consumed_at = <<>> /\ run = 1
  /\ first_outcome = None /\ sorter_result = None

FixIdle ==
  /\ pending = <<>> /\ originals = <<>> /\ fix_commits = <<>>
  /\ fix_hits = {} /\ returned = {} /\ warn_log = <<>>

EnrichIdle == record = from_hash("") /\ record0 = from_hash("") /\ calls = <<>>

(***************************************************************************)
(* The codec pipeline: a commit-list file is read, written back, read      *)
(* again, ...                                                              *)
(***************************************************************************)
InitCodec ==
  /\ head = "P2"
  /\ file \in CodecFiles
  /\ file0 = file
  /\ pc = "read"
  /\ args = [command |-> "codec"]
  /\ stdout = <<>>
  /\ result = None
  /\ CodecIdle /\ SortIdle /\ FixIdle /\ EnrichIdle

\* CommitsParser::read_from_file
CodecRead ==
  /\ pc = "read"
  /\ LET r == read_from_file(file)
     IN  IF r.ok
         THEN /\ modelines' = r.modelines
              /\ entries' = r.entries
              /\ reads' = Append(reads, [modelines |-> r.modelines,
                                         entries |-> r.entries])
              /\ pc' = "parsed"
              /\ UNCHANGED result
         ELSE /\ result' = Some(Err("No commits found in file", {}))
              /\ pc' = "done"
              /\ UNCHANGED <<modelines, entries, reads>>
  /\ UNCHANGED <<head, file, file0, args, stdout>>
  /\ UNCHANGED sortVars /\ UNCHANGED fixVars /\ UNCHANGED enrichVars

\* CommitsParser::write_to_file
CodecWrite ==
  /\ pc = "parsed"
  /\ Len(reads) <= MaxRoundTrips
  /\ file' = write_to_file(modelines, entries)
  /\ pc' = "read"
  /\ UNCHANGED <<head, file0, modelines, entries, reads, args, stdout, result>>
  /\ UNCHANGED sortVars /\ UNCHANGED fixVars /\ UNCHANGED enrichVars

NextCodec == CodecRead \/ CodecWrite

SpecCodec == InitCodec /\ [][NextCodec]_vars


(***************************************************************************)
(* The sort command (src/commands/sort.rs)                                 *)
(***************************************************************************)
\* Targets on the command line
MaxTargets == 2

\* Lines of the commit-list file given to sort
MaxSortLines == 2

\* Lines `git rev-list --topo-order` prints
MaxFeed == 3

\* The hashes and abbreviations given as targets: "deadbee" abbreviates two
\* objects, "ffff000" none
TargetPool == {"deadbee", "deadbee1", "c0ffee2", H_O2, "ffff000"}

\* The lines the files given to sort are made of
SortLinePool == {
  "# picked for v2",
  "deadbee1 " \o CID_A \o " Add parser",
  "deadbee",
  "c0ffee2 Add sorter",
  H_O2
}

SortFiles ==
  {FileOf(ls) : ls \in SeqsUpTo(SortLinePool, MaxSortLines) \ {<<>>}}

\* The objects the reference's history is made of
FeedPool == {"O1", "D2", "O2"}

\* The answers of `git rev-list --topo-order <reference>`: any listing of
\* distinct objects, or failure (an unknown reference)
Feeds ==
  {Out(TRUE, HashLines(f)) :
     f \in {g \in SeqsUpTo(FeedPool, MaxFeed) :
              \A i, j \in 1..Len(g) : i # j => g[i] # g[j]}}
  \cup {Failed}

CommitsFile == "commits.txt"

\* sort.rs:75, the rank of an entry that is not in sorted_map
NotFoundRank == 999999

\* CommitsParser::get_commits
get_commits(cli_commits, commits_file, content) ==
  IF commits_file # None
  THEN LET r == read_from_file(content)
       IN  [ok |-> r.ok,
            commits |-> [i \in 1..Len(r.entries) |-> r.entries[i].commit],
            file_path |-> commits_file]
  ELSE [ok |-> TRUE,
        commits |-> [i \in 1..Len(cli_commits) |-> from_hash(cli_commits[i])],
        file_path |-> None]

\* Mutant of sorter_push: the ancestry hash is pushed, not the target
sorter_push_commit(sorted, commit, matched) == Append(sorted, commit)

\* Mutant of sorter_push: the match is put in front
sorter_push_front(sorted, commit, matched) == <<matched>> \o sorted

\* Mutant of sorter_return: a partial ordering is returned as a success
sorter_return_partial(sorted, set) ==
  [kind |-> "ok", sorted |-> sorted, missing |-> {}]

\* The bidirectional prefix match of two hashes
PrefixMatch(a, b) == starts_with(a, b) \/ starts_with(b, a)

\* sorter, lines 138-144: the targets of input_set the ancestry line matches
MatchingInputs(commit, set) == {t \in set : PrefixMatch(commit, t)}

\* sorter, line 147
sorter_push(sorted, commit, matched) == Append(sorted, matched)

\* sorter, line 148
sorter_remove(set, matched) == set \ {matched}

\* sorter, lines 152-158
sorter_return(sorted, set) ==
  IF set # {} THEN [kind |-> "not_found", sorted |-> <<>>, missing |-> set]
  ELSE [kind |-> "ok", sorted |-> sorted, missing |-> {}]

\* Mutant of sorted_info: the last input record that matches gives the fields
RECURSIVE sorted_info_last(_, _)
sorted_info_last(sorted_hashes, infos) ==
  IF sorted_hashes = <<>> THEN <<>>
  ELSE LET h == Head(sorted_hashes)
           m == {i \in 1..Len(infos) : PrefixMatch(infos[i].hash, h)}
       IN  (IF m = {} THEN <<>>
            ELSE <<[infos[CHOOSE i \in m : \A j \in m : j <= i]
                      EXCEPT !.hash = h]>>)
           \o sorted_info_last(Tail(sorted_hashes), infos)

\* command, lines 41-49: each sorted hash with the Change-Id and title of the
\* first input record that matches it
RECURSIVE sorted_info(_, _)
sorted_info(sorted_hashes, infos) ==
  IF sorted_hashes = <<>> THEN <<>>
  ELSE LET h == Head(sorted_hashes)
           m == {i \in 1..Len(infos) : PrefixMatch(infos[i].hash, h)}
       IN  (IF m = {} THEN <<>>
            ELSE <<[infos[SetMin(m)] EXCEPT !.hash = h]>>)
           \o sorted_info(Tail(sorted_hashes), infos)

\* HashMap::insert
MapInsert(m, k, v) == [x \in DOMAIN m \cup {k} |-> IF x = k THEN v ELSE m[x]]

\* command, lines 64-69: the inner loop over the entries, from entry j on
RECURSIVE map_entries(_, _, _, _, _)
map_entries(m, ents, j, hash, i) ==
  IF j > Len(ents) THEN m
  ELSE map_entries(IF PrefixMatch(ents[j].commit.hash, hash)
                   THEN MapInsert(m, ents[j].commit.hash, i) ELSE m,
                   ents, j + 1, hash, i)

\* command, lines 59-70: sorted_map, built from sorted record i (0-based) on
RECURSIVE sorted_map(_, _, _, _)
sorted_map(m, sorted_infos, i, ents) ==
  IF i >= Len(sorted_infos) THEN m
  ELSE sorted_map(map_entries(MapInsert(m, sorted_infos[i + 1].hash, i),
                              ents, 1, sorted_infos[i + 1].hash, i),
                  sorted_infos, i + 1, ents)

\* command, lines 75-76
RankOf(m, e) ==
  IF e.commit.hash \in DOMAIN m THEN m[e.commit.hash] ELSE NotFoundRank

\* slice::sort_by (stable) on the rank: e goes after the elements of the
\* sorted prefix whose rank is not greater
RECURSIVE insert_by_rank(_, _, _)
insert_by_rank(sorted, e, m) ==
  IF sorted = <<>> THEN <<e>>
  ELSE IF RankOf(m, e) < RankOf(m, sorted[Len(sorted)])
       THEN Append(insert_by_rank(SubSeq(sorted, 1, Len(sorted) - 1), e, m),
                   sorted[Len(sorted)])
       ELSE Append(sorted, e)

RECURSIVE sort_by_rank(_, _)
sort_by_rank(ents, m) ==
  IF ents = <<>> THEN <<>>
  ELSE insert_by_rank(sort_by_rank(SubSeq(ents, 1, Len(ents) - 1), m),
                      ents[Len(ents)], m)

\* command, lines 81-87: each entry takes the first sorted record it matches
update_entries(ents, sorted_infos) ==
  [k \in 1..Len(ents) |->
     LET m == {i \in 1..Len(sorted_infos) :
                 PrefixMatch(sorted_infos[i].hash, ents[k].commit.hash)}
     IN  IF m = {} THEN ents[k]
         ELSE [ents[k] EXCEPT !.commit = sorted_infos[SetMin(m)]]]

\* command, lines 56-89: the content the in-place mode writes
in_place_content(content, sorted_infos) ==
  LET r == read_from_file(content)
      m == sorted_map(<<>>, sorted_infos, 0, r.entries)
  IN  write_to_file(r.modelines,
                    update_entries(sort_by_rank(r.entries, m), sorted_infos))

\* command, lines 93-95 and 100-102
print_lines(sorted_infos) == [i \in 1..Len(sorted_infos) |-> to_line(sorted_infos[i])]

\* The number n as println! prints it, for the counts that occur
Decimal(n) == IF n < 10 THEN SubSeq("0123456789", n + 1, n + 1)
              ELSE "many"

InitSort ==
  /\ head = "P2"
  /\ \/ /\ args \in {[command |-> "sort", commits |-> c, commits_file |-> None,
                      in_place |-> FALSE, reference |-> "HEAD"] :
                       c \in SeqsUpTo(TargetPool, MaxTargets) \ {<<>>}}
        /\ file = ""
     \/ /\ args \in {[command |-> "sort", commits |-> <<>>,
                      commits_file |-> Some(CommitsFile),
                      in_place |-> b, reference |-> "HEAD"] : b \in BOOLEAN}
        /\ file \in SortFiles
  /\ file0 = file
  /\ ancestry \in Feeds
  /\ pc = "start"
  /\ commit_infos = <<>> /\ commit_list = <<>> /\ input_set = {}
  /\ sorted_commits = <<>> /\ idx = 0
  /\ sorter_result = None /\ consumed_at = <<>>
  /\ run = 1 /\ first_outcome = None
  /\ stdout = <<>> /\ result = None
  /\ CodecIdle /\ FixIdle /\ EnrichIdle

\* command, lines 34-38, and the sorter up to its loop (lines 113-127)
SortStart ==
  /\ args.command = "sort"
  /\ pc = "start"
  /\ LET got == get_commits(args.commits, args.commits_file, file)
     IN  IF ~got.ok
         THEN /\ result' = Some(Err("No commits found in file", {}))
              /\ pc' = "done"
              /\ UNCHANGED <<commit_infos, commit_list, input_set, sorter_result>>
         ELSE /\ commit_infos' = got.commits
              /\ IF ~ancestry.ok
                 THEN /\ sorter_result' =
                           Some([kind |-> "git", sorted |-> <<>>, missing |-> {}])
                      /\ result' = Some(Err("git rev-list: " \o ancestry.stderr, {}))
                      /\ pc' = "done"
                      /\ UNCHANGED <<commit_list, input_set>>
                 ELSE /\ commit_list' = lines(ancestry.stdout)
                      /\ input_set' =
                           {got.commits[i].hash : i \in 1..Len(got.commits)}
                      /\ pc' = "walk"
                      /\ UNCHANGED <<sorter_result, result>>
  /\ UNCHANGED <<head, file, file0, args, ancestry, sorted_commits, idx,
                 consumed_at, run, first_outcome, stdout>>
  /\ UNCHANGED codecVars /\ UNCHANGED fixVars /\ UNCHANGED enrichVars

\* sorter, lines 128-150: one line of the ancestry. Which of several matching
\* targets the loop over the HashSet meets first depends on the set's
\* iteration order, which is random per process: any of them.
SortWalk ==
  /\ pc = "walk"
  /\ idx < Len(commit_list)
  /\ LET commit == trim(commit_list[idx + 1])
         matching == MatchingInputs(commit, input_set)
     IN  IF commit = "" \/ input_set = {} \/ matching = {}
         THEN UNCHANGED <<sorted_commits, input_set, consumed_at>>
         ELSE \E matched \in matching :
                /\ sorted_commits' = sorter_push(sorted_commits, commit, matched)
                /\ input_set' = sorter_remove(input_set, matched)
                /\ consumed_at' = MapInsert(consumed_at, matched, idx + 1)
  /\ idx' = idx + 1
  /\ UNCHANGED <<head, file, file0, pc, args, ancestry, commit_infos,
                 commit_list, sorter_result, run, first_outcome, stdout, result>>
  /\ UNCHANGED codecVars /\ UNCHANGED fixVars /\ UNCHANGED enrichVars

\* sorter, lines 152-158, and the `?` of command, line 38
SorterReturn ==
  /\ pc = "walk"
  /\ idx = Len(commit_list)
  /\ LET r == sorter_return(sorted_commits, input_set)
     IN  /\ sorter_result' = Some(r)
         /\ IF r.kind = "ok"
            THEN pc' = "output" /\ UNCHANGED result
            ELSE /\ pc' = "done"
                 /\ result' = Some(Err("Some commits not found in HEAD history",
                                       r.missing))
  /\ UNCHANGED <<head, file, file0, args, ancestry, commit_infos, commit_list,
                 input_set, sorted_commits, idx, consumed_at, run,
                 first_outcome, stdout>>
  /\ UNCHANGED codecVars /\ UNCHANGED fixVars /\ UNCHANGED enrichVars

\* command, lines 40-106
SortOutput ==
  /\ pc = "output"
  /\ LET sorted_commits_info == sorted_info(sorter_result[1].sorted, commit_infos)
     IN  IF args.commits_file # None /\ args.in_place
         THEN /\ file' = in_place_content(file, sorted_commits_info)
              /\ stdout' = <<"Updated " \o Decimal(Len(sorted_commits_info))
                               \o " commits in " \o args.commits_file[1]>>
         ELSE /\ stdout' = print_lines(sorted_commits_info)
              /\ UNCHANGED file
  /\ result' = Some(Ok)
  /\ pc' = "done"
  /\ UNCHANGED <<head, file0, args, ancestry, commit_infos, commit_list,
                 input_set, sorted_commits, idx, sorter_result, consumed_at,
                 run, first_outcome>>
  /\ UNCHANGED codecVars /\ UNCHANGED fixVars /\ UNCHANGED enrichVars

\* The command is invoked a second time on the same command line, the same
\* file and the same repository
SortAgain ==
  /\ args.command = "sort"
  /\ pc = "done"
  /\ run = 1
  /\ file = file0
  /\ run' = 2
  /\ first_outcome' = Some([sorter |-> sorter_result, result |-> result,
                            stdout |-> stdout])
  /\ pc' = "start"
  /\ commit_infos' = <<>> /\ commit_list' = <<>> /\ input_set' = {}
  /\ sorted_commits' = <<>>
  /\ idx' = 0 /\ sorter_result' = None /\ consumed_at' = <<>>
  /\ stdout' = <<>> /\ result' = None
  /\ UNCHANGED <<head, file, file0, args, ancestry>>
  /\ UNCHANGED codecVars /\ UNCHANGED fixVars /\ UNCHANGED enrichVars

NextSort == SortStart \/ SortWalk \/ SorterReturn \/ SortOutput \/ SortAgain

SpecSort == InitSort /\ [][NextSort]_vars

(***************************************************************************)
(* The fix command (src/commands/fix.rs)                                   *)
(***************************************************************************)
\* Length of the short hash used in the searches
ShortHashLen == 7

short_hash(hash) ==
  SubSeq(hash, 1, IF Len(hash) < ShortHashLen THEN Len(hash) ELSE ShortHashLen)

\* The lines of a listing that are not blank, trimmed
RECURSIVE NonEmptyTrimmed(_)
NonEmptyTrimmed(ls) ==
  IF ls = <<>> THEN <<>>
  ELSE LET line == trim(Head(ls))
       IN  (IF line = "" THEN <<>> ELSE <<line>>) \o NonEmptyTrimmed(Tail(ls))

\* Mutant of get_commits_in_range: a failed listing is taken as an empty range
get_commits_in_range_lenient(base, head_arg) ==
  [ok |-> TRUE,
   commits |-> [i \in 1..Len(NonEmptyTrimmed(lines(
                  git_rev_list_reverse(base, head_arg).stdout))) |->
                  from_hash(NonEmptyTrimmed(lines(
                    git_rev_list_reverse(base, head_arg).stdout))[i])],
   stderr |-> ""]

\* get_commits_in_range
get_commits_in_range(base, head_arg) ==
  LET output == git_rev_list_reverse(base, head_arg)
      hashes == NonEmptyTrimmed(lines(output.stdout))
  IN  [ok |-> output.ok,
       commits |-> IF output.ok
                   THEN [i \in 1..Len(hashes) |-> from_hash(hashes[i])]
                   ELSE <<>>,
       stderr |-> output.stderr]

\* find_commit_by_change_id: the first hit, as an Option
find_commit_by_change_id(change_id, ref_branch) ==
  LET output == git_log_grep("Change-Id: " \o change_id, ref_branch)
      hashes == NonEmptyTrimmed(lines(output.stdout))
  IN  IF output.ok /\ hashes # <<>> THEN Some(hashes[1]) ELSE None

\* get_was_change_ids
get_was_change_ids(commit_hash) ==
  LET output == git_log_body(commit_hash)
      body == SelectSeq(lines(output.stdout),
                        LAMBDA l : starts_with(l, "Was-Change-Id: I"))
  IN  IF ~output.ok THEN <<>>
      ELSE [i \in 1..Len(body) |-> trim(strip_prefix(body[i], "Was-Change-Id: "))]

\* Mutant of add_was_originals: an original found before is pushed again
RECURSIVE add_was_originals_unchecked(_, _, _)
add_was_originals_unchecked(found_originals, was_change_ids, ref_branch) ==
  IF was_change_ids = <<>> THEN found_originals
  ELSE add_was_originals_unchecked(
         found_originals
           \o find_commit_by_change_id(Head(was_change_ids), ref_branch),
         Tail(was_change_ids), ref_branch)

\* find_all_original_commits, lines 141-151: the loop over the was-change-ids
RECURSIVE add_was_originals(_, _, _)
add_was_originals(found_originals, was_change_ids, ref_branch) ==
  IF was_change_ids = <<>> THEN found_originals
  ELSE LET original == find_commit_by_change_id(Head(was_change_ids), ref_branch)
       IN  add_was_originals(
             IF original # None /\ ~InSeq(original[1], found_originals)
             THEN Append(found_originals, original[1]) ELSE found_originals,
             Tail(was_change_ids), ref_branch)

\* find_all_original_commits
find_all_original_commits(commit, ref_branch) ==
  add_was_originals(
    IF commit.change_id = None THEN <<>>
    ELSE find_commit_by_change_id(commit.change_id[1], ref_branch),
    get_was_change_ids(commit.hash), ref_branch)

\* is_commit_already_applied, lines 212-221
applied_as_ancestor(commit_info) == git_is_ancestor(commit_info.hash).ok

\* is_commit_already_applied, lines 224-240
applied_by_change_id(commit_info, base) ==
  /\ commit_info.change_id # None
  /\ LET output == git_log_grep_range("Change-Id: " \o commit_info.change_id[1],
                                      base, "HEAD")
     IN  output.ok /\ trim(output.stdout) # ""

\* Mutant of applied_by_cherry_pick: the cherry-pick records are not searched
applied_by_cherry_pick_skipped(commit_info, base) == FALSE

\* is_commit_already_applied, lines 243-262
applied_by_cherry_pick(commit_info, base) ==
  \E hash_to_check \in {commit_info.hash, short_hash(commit_info.hash)} :
    LET output == git_log_grep_range(
                    "cherry picked from commit " \o hash_to_check, base, "HEAD")
    IN  output.ok /\ trim(output.stdout) # ""

\* is_commit_already_applied
is_commit_already_applied(commit_info, base) ==
  \/ applied_as_ancestor(commit_info)
  \/ applied_by_change_id(commit_info, base)
  \/ applied_by_cherry_pick(commit_info, base)

\* find_fixes_for_commit, lines 273-298: the hits of the search
fix_search(original_commit, ref_branch) ==
  LET output == git_log_grep_range("Fixes: " \o short_hash(original_commit),
                                   original_commit, ref_branch)
  IN  IF output.ok THEN NonEmptyTrimmed(lines(output.stdout)) ELSE <<>>

\* find_fixes_for_commit, lines 303-309: an applied fix is skipped
push_unless_applied(commit_info, base) ==
  IF is_commit_already_applied(commit_info, base) THEN <<>> ELSE <<commit_info>>

\* find_fixes_for_commit, lines 296-312: the hits enriched, the applied ones
\* skipped
RECURSIVE unapplied_fixes(_, _)
unapplied_fixes(hits, base) ==
  IF hits = <<>> THEN <<>>
  ELSE push_unless_applied(
         fetch_title_if_missing(fetch_change_id_if_missing(from_hash(Head(hits)))),
         base)
       \o unapplied_fixes(Tail(hits), base)

\* find_fixes_for_commit
find_fixes_for_commit(original_commit, ref_branch, base) ==
  unapplied_fixes(fix_search(original_commit, ref_branch), base)

\* find_references_for_commit
find_references_for_commit(original_commit, ref_branch) ==
  LET output == git_log_grep_range(short_hash(original_commit),
                                   original_commit, ref_branch)
  IN  IF output.ok THEN NonEmptyTrimmed(lines(output.stdout)) ELSE <<>>

\* is_explicit_fix
is_explicit_fix(commit_hash, original_commit) ==
  LET output == git_log_body(commit_hash)
      body == lines(output.stdout)
  IN  /\ output.ok
      /\ \E i \in 1..Len(body) :
           LET line == trim(body[i])
               part == split_whitespace(strip_prefix(line, "Fixes: "))
               fixes_hash == IF part = <<>> THEN "" ELSE part[1]
           IN  /\ starts_with(line, "Fixes: ")
               /\ PrefixMatch(original_commit, fixes_hash)

\* get_commit_title
get_commit_title(commit_hash) ==
  LET output == git_log_subject(commit_hash)
      title == trim(output.stdout)
  IN  IF output.ok /\ title # "" THEN Some(title) ELSE None

\* command, lines 68-83: the warnings for one original
warn(references, original_commit) ==
  [i \in 1..Len(references) |->
     [reference |-> references[i], original |-> original_commit,
      title |-> get_commit_title(references[i])]]

warnings_for(original_commit, ref_branch) ==
  warn(SelectSeq(find_references_for_commit(original_commit, ref_branch),
                 LAMBDA r : ~is_explicit_fix(r, original_commit)),
       original_commit)

\* Rank of a hexadecimal digit in byte order
HexRank(c) == CHOOSE i \in 1..16 : Char("0123456789abcdef", i) = c

\* str::cmp is Less, on hexadecimal strings
RECURSIVE str_lt(_, _)
str_lt(a, b) ==
  IF b = "" THEN FALSE
  ELSE IF a = "" THEN TRUE
  ELSE IF Char(a, 1) # Char(b, 1) THEN HexRank(Char(a, 1)) < HexRank(Char(b, 1))
  ELSE str_lt(SubSeq(a, 2, Len(a)), SubSeq(b, 2, Len(b)))

\* slice::sort_by (stable) on the hash
RECURSIVE insert_by_hash(_, _)
insert_by_hash(sorted, c) ==
  IF sorted = <<>> THEN <<c>>
  ELSE IF str_lt(c.hash, sorted[Len(sorted)].hash)
       THEN Append(insert_by_hash(SubSeq(sorted, 1, Len(sorted) - 1), c),
                   sorted[Len(sorted)])
       ELSE Append(sorted, c)

\* Mutant of sort_by_hash: the list is left in discovery order
sort_by_hash_skipped(commits) == commits

\* command, line 89
RECURSIVE sort_by_hash(_)
sort_by_hash(commits) ==
  IF commits = <<>> THEN <<>>
  ELSE insert_by_hash(sort_by_hash(SubSeq(commits, 1, Len(commits) - 1)),
                      commits[Len(commits)])

\* command, line 90: Vec::dedup_by on the hash, an element equal to the one
\* kept before it is removed
RECURSIVE dedup_by_hash(_)
dedup_by_hash(commits) ==
  IF Len(commits) <= 1 THEN commits
  ELSE LET front == dedup_by_hash(SubSeq(commits, 1, Len(commits) - 1))
           last == commits[Len(commits)]
       IN  IF front[Len(front)].hash = last.hash THEN front
           ELSE Append(front, last)

\* output_commits_file
output_commits_file(commits) ==
  <<DefaultModeline>> \o [i \in 1..Len(commits) |-> to_line(commits[i])]

\* The commits HEAD can point to, and the --base and --ref arguments
HeadPool == {"P3", "P2", "P1", "B2", "B1"}

BasePool == {"f4f4f4f", H_B1, "HEAD", "nosuch"}

RefPool == {"main", "v1", "nosuch"}

InitFix ==
  /\ head \in HeadPool
  /\ args \in {[command |-> "fix", base |-> b, ref_branch |-> r] :
                 b \in BasePool, r \in RefPool}
  /\ file = "" /\ file0 = ""
  /\ pc = "start"
  /\ pending = <<>> /\ originals = <<>> /\ fix_commits = <<>>
  /\ fix_hits = {} /\ returned = {} /\ warn_log = <<>>
  /\ stdout = <<>> /\ result = None
  /\ CodecIdle /\ SortIdle /\ EnrichIdle

\* command, lines 25-35
FixStart ==
  /\ args.command = "fix"
  /\ pc = "start"
  /\ LET got == get_commits_in_range(args.base, "HEAD")
     IN  IF ~got.ok
         THEN /\ result' = Some(Err("git rev-list failed: " \o got.stderr, {}))
              /\ pc' = "done"
              /\ UNCHANGED pending
         ELSE IF got.commits = <<>>
         THEN /\ result' = Some(Ok)
              /\ pc' = "done"
              /\ UNCHANGED pending
         ELSE /\ pending' = got.commits
              /\ pc' = "commits"
              /\ UNCHANGED result
  /\ UNCHANGED <<head, file, file0, args, originals, fix_commits, fix_hits,
                 returned, warn_log, stdout>>
  /\ UNCHANGED codecVars /\ UNCHANGED sortVars /\ UNCHANGED enrichVars

\* command, lines 37-52: the next commit of the range is enriched and its
\* originals are looked up
FixCommit ==
  /\ pc = "commits"
  /\ originals = <<>>
  /\ pending # <<>>
  /\ LET commit == fetch_title_if_missing(fetch_change_id_if_missing(Head(pending)))
     IN  originals' = find_all_original_commits(commit, args.ref_branch)
  /\ pending' = Tail(pending)
  /\ UNCHANGED <<head, file, file0, pc, args, fix_commits, fix_hits, returned,
                 warn_log, stdout, result>>
  /\ UNCHANGED codecVars /\ UNCHANGED sortVars /\ UNCHANGED enrichVars

\* command, lines 54-84: the fixes of, and the references to, the next original
FixOriginal ==
  /\ pc = "commits"
  /\ originals # <<>>
  /\ \E original_commit \in {Head(originals)} :
       /\ \E fixes \in {find_fixes_for_commit(original_commit, args.ref_branch,
                                               args.base)} :
            /\ fix_commits' = fix_commits \o fixes
            /\ returned' = returned \cup
                 {<<original_commit, fixes[i].hash>> : i \in 1..Len(fixes)}
       /\ fix_hits' = fix_hits \cup
            {<<original_commit, h>> :
               h \in Range(fix_search(original_commit, args.ref_branch))}
       /\ warn_log' = warn_log \o warnings_for(original_commit, args.ref_branch)
  /\ originals' = Tail(originals)
  /\ UNCHANGED <<head, file, file0, pc, args, pending, stdout, result>>
  /\ UNCHANGED codecVars /\ UNCHANGED sortVars /\ UNCHANGED enrichVars

\* command, lines 88-97
FixFinish ==
  /\ pc = "commits"
  /\ originals = <<>>
  /\ pending = <<>>
  /\ fix_commits' = dedup_by_hash(sort_by_hash(fix_commits))
  /\ stdout' = output_commits_file(fix_commits')
  /\ result' = Some(Ok)
  /\ pc' = "done"
  /\ UNCHANGED <<head, file, file0, args, pending, originals, fix_hits, returned,
                 warn_log>>
  /\ UNCHANGED codecVars /\ UNCHANGED sortVars /\ UNCHANGED enrichVars

NextFix == FixStart \/ FixCommit \/ FixOriginal \/ FixFinish

SpecFix == InitFix /\ [][NextFix]_vars

(***************************************************************************)
(* The program (src/main.rs): the command line selects sort or fix         *)
(***************************************************************************)
InitCommand == InitSort \/ InitFix

NextCommand == NextSort \/ NextFix

SpecCommand == InitCommand /\ [][NextCommand]_vars

(***************************************************************************)
(* Enrichment of one CommitInfo (src/utils/commits.rs): the three methods  *)
(* called in any order on a record                                         *)
(***************************************************************************)
\* Calls made on one record
MaxCalls == 4

\* The hashes a record is constructed with: abbreviated, full, ambiguous,
\* unknown, of a commit with a malformed Change-Id, of one without Change-Id,
\* a branch name, a tracked file
EnrichHashPool ==
  {"deadbee1", H_O1, "deadbee", "ffff000", "1b1b1b1", "f2f2f2f", "main", "README"}

EnrichInputs ==
  {[hash |-> h, change_id |-> c, title |-> t] :
     h \in EnrichHashPool, c \in {None, Some(CID_B)},
     t \in {None, Some("Custom title")}}

\* The subprocess expand_hash_to_full spawns on c
expand_hash_queries(c) ==
  IF Len(c.hash) = FullHashLen THEN <<>> ELSE <<<<"rev-parse", c.hash>>>>

\* The subprocesses fetch_title_if_missing spawns on c
fetch_title_queries(c) ==
  LET e == expand_hash_to_full(c)
  IN  expand_hash_queries(c)
        \o (IF e.title # None THEN <<>> ELSE <<<<"log", "--format=%s", e.hash>>>>)

\* The subprocess fetch_change_id_if_missing spawns on c
fetch_change_id_queries(c) ==
  IF c.change_id # None THEN <<>> ELSE <<<<"log", "--format=%B", c.hash>>>>

InitEnrich ==
  /\ head = "P2"
  /\ record \in EnrichInputs
  /\ record0 = record
  /\ calls = <<>>
  /\ args = [command |-> "enrich"]
  /\ file = "" /\ file0 = ""
  /\ pc = "record"
  /\ stdout = <<>> /\ result = None
  /\ CodecIdle /\ SortIdle /\ FixIdle

\* One call: the method, the record before and after, the subprocesses spawned
Call(op, before, after, queries) ==
  [op |-> op, before |-> before, after |-> after, queries |-> queries]

\* CommitInfo::expand_hash_to_full
EnrichExpand ==
  /\ pc = "record"
  /\ Len(calls) < MaxCalls
  /\ record' = expand_hash_to_full(record)
  /\ calls' = Append(calls, Call("expand_hash_to_full", record, record', expand_hash_queries(record)))
  /\ UNCHANGED <<head, file, file0, pc, args, record0, stdout, result>>
  /\ UNCHANGED codecVars /\ UNCHANGED sortVars /\ UNCHANGED fixVars

\* CommitInfo::fetch_title_if_missing
EnrichTitle ==
  /\ pc = "record"
  /\ Len(calls) < MaxCalls
  /\ record' = fetch_title_if_missing(record)
  /\ calls' = Append(calls, Call("fetch_title_if_missing", record, record', fetch_title_queries(record)))
  /\ UNCHANGED <<head, file, file0, pc, args, record0, stdout, result>>
  /\ UNCHANGED codecVars /\ UNCHANGED sortVars /\ UNCHANGED fixVars

\* CommitInfo::fetch_change_id_if_missing
EnrichChangeId ==
  /\ pc = "record"
  /\ Len(calls) < MaxCalls
  /\ record' = fetch_change_id_if_missing(record)
  /\ calls' = Append(calls, Call("fetch_change_id_if_missing", record, record', fetch_change_id_queries(record)))
  /\ UNCHANGED <<head, file, file0, pc, args, record0, stdout, result>>
  /\ UNCHANGED codecVars /\ UNCHANGED sortVars /\ UNCHANGED fixVars

NextEnrich == EnrichExpand \/ EnrichTitle \/ EnrichChangeId

SpecEnrich == InitEnrich /\ [][NextEnrich]_vars

(***************************************************************************)
(* Claims about the codec                                                  *)
(***************************************************************************)
\* Two hashes name the same commit: they are equal, or git resolves both to
\* one object
SameCommitHash(h1, h2) ==
  h1 = h2 \/ (Resolve(h1) # None /\ Resolve(h1) = Resolve(h2))

\* What a write followed by a read must keep of an earlier read r in the later
\* read q: the commits in order, each with its comments, and the modelines
RoundTripKeeps(r, q) ==
  /\ Len(q.entries) = Len(r.entries)
  /\ \A i \in 1..Len(r.entries) :
       /\ i <= Len(q.entries)
       /\ SameCommitHash(r.entries[i].commit.hash, q.entries[i].commit.hash)
       /\ q.entries[i].comments = r.entries[i].comments
  /\ q.modelines = IF r.modelines = <<>> THEN <<DefaultModeline>> ELSE r.modelines

\* C5 (first half): read, write and read again yields the same commits in the
\* same order with the same comments and modelines (the default modeline when
\* the file had none).
C5_KeepsCommitsAndComments ==
  Len(reads) >= 2 => RoundTripKeeps(reads[1], reads[2])

\* C5: the round trip read-write-read keeps commits, comments and modelines,
\* and applying it a second time changes nothing: the third read equals the
\* second.
C5_RoundTripIdempotent ==
  /\ C5_KeepsCommitsAndComments
  /\ Len(reads) >= 3 => reads[3] = reads[2]

\* The lines of the file after its leading modelines
BodyLines ==
  LET ls == lines(file) IN SubSeq(ls, ModelineCount(ls, 0) + 1, Len(ls))

\* A line that is neither blank nor a comment
IsCommitLine(l) == trim(l) # "" /\ Char(trim(l), 1) # "#"

CommitLineIdx == {p \in 1..Len(BodyLines) : IsCommitLine(BodyLines[p])}

\* Index in BodyLines of the k-th commit line
KthCommitLine(k) ==
  CHOOSE p \in CommitLineIdx : Cardinality({q \in CommitLineIdx : q <= p}) = k

TokenHasChangeIdShape(t) == Len(t) = 41 /\ Char(t, 1) = "I"

\* C6, for the commit c parsed from line l
ParsedKeepsEveryToken(l, c) ==
  LET toks == split_whitespace(l)
      rest == Tail(toks)
      shaped == SelectSeq(rest, TokenHasChangeIdShape)
      others == SelectSeq(rest, LAMBDA t : ~TokenHasChangeIdShape(t))
  IN  /\ c.hash = toks[1]
      /\ IF shaped = <<>> THEN c.change_id = None
         ELSE c.change_id # None /\ InSeq(c.change_id[1], shaped)
      /\ c.title = IF others = <<>> THEN None ELSE Some(join(others, " "))
      /\ Len(rest) = Len(c.change_id) + Len(others)

\* C6: parse_line takes token 0 as the hash, a later token of 41 characters
\* starting with "I" as the Change-Id and joins all other later tokens with
\* single spaces as the title; no token after the hash is dropped, also when
\* more than one has the Change-Id shape.
C6_EveryTokenKept ==
  pc = "parsed" =>
    /\ Len(entries) = Cardinality(CommitLineIdx)
    /\ \A k \in 1..Len(entries) :
         ParsedKeepsEveryToken(BodyLines[KthCommitLine(k)], entries[k].commit)

\* C7: every comment or blank line after the leading modelines is, verbatim,
\* in the comments of the entry of the first commit line after it, at its
\* place in file order; none is dropped.
C7_EveryCommentKept ==
  pc = "parsed" =>
    \A j \in 1..Len(BodyLines) :
      ~IsCommitLine(BodyLines[j]) =>
        LET after == {p \in CommitLineIdx : p > j}
            before == {p \in CommitLineIdx : p < j}
            start == IF before = {} THEN 1 ELSE SetMax(before) + 1
            k == Cardinality(before) + 1
        IN  /\ after # {}
            /\ k <= Len(entries)
            /\ Len(entries[k].comments) = SetMin(after) - start
            /\ entries[k].comments[j - start + 1] = BodyLines[j]

\* C7 without its last clause: the comment and blank lines that have a commit
\* line after them are kept, attached to the entry of that commit line.
C7_CommentsBeforeACommitKept ==
  pc = "parsed" =>
    \A j \in 1..Len(BodyLines) :
      (~IsCommitLine(BodyLines[j]) /\ \E p \in CommitLineIdx : p > j) =>
        LET after == {p \in CommitLineIdx : p > j}
            before == {p \in CommitLineIdx : p < j}
            start == IF before = {} THEN 1 ELSE SetMax(before) + 1
            k == Cardinality(before) + 1
        IN  /\ k <= Len(entries)
            /\ Len(entries[k].comments) = SetMin(after) - start
            /\ entries[k].comments[j - start + 1] = BodyLines[j]


(***************************************************************************)
(* Claims about the sorter and the sort command                            *)
(***************************************************************************)
\* The input target set of the sorter
Targets == {commit_infos[i].hash : i \in 1..Len(commit_infos)}

SorterSucceeded == sorter_result # None /\ sorter_result[1].kind = "ok"

SorterNotFound == sorter_result # None /\ sorter_result[1].kind = "not_found"

\* C1: when sort_commits_topologically succeeds, its output holds every input
\* target exactly once and nothing else; when it fails with commits not
\* found, it returns no ordering and the command prints no line.
C1_OutputIsPermutation ==
  /\ SorterSucceeded =>
       /\ Range(sorter_result[1].sorted) = Targets
       /\ Len(sorter_result[1].sorted) = Cardinality(Targets)
  /\ SorterNotFound => sorter_result[1].sorted = <<>> /\ stdout = <<>>

\* C1 witness: the sorter succeeded on two targets
C1_Witness == SorterSucceeded /\ Len(sorter_result[1].sorted) = 2

\* C2: a target consumed by an earlier ancestry line precedes, in the output,
\* a target consumed by a later one; ancestry O1, D2, O2 with the targets O2
\* and deadbee1 (which abbreviates O1) gives deadbee1, O2.
C2_OrderFollowsAncestry ==
  /\ \A i, j \in 1..Len(sorted_commits) :
       consumed_at[sorted_commits[i]] < consumed_at[sorted_commits[j]] => i < j
  /\ (SorterSucceeded /\ commit_list = <<H_O1, H_D2, H_O2>>
        /\ Targets = {H_O2, "deadbee1"})
       => sorter_result[1].sorted = <<"deadbee1", H_O2>>

\* C2 witness: two targets given newest first come out in ancestry order
C2_Witness ==
  /\ SorterSucceeded
  /\ Len(args.commits) = 2
  /\ sorter_result[1].sorted = <<args.commits[2], args.commits[1]>>
  /\ args.commits[1] # args.commits[2]

\* C3: the second run on the same ancestry and the same targets ends as the
\* first did: the sorter succeeds in both or fails in both, and returns the
\* same output sequence.
C3_SecondRunSame ==
  (run = 2 /\ sorter_result # None) =>
    /\ first_outcome[1].sorter[1].kind = sorter_result[1].kind
    /\ first_outcome[1].sorter[1].sorted = sorter_result[1].sorted

\* C4: when targets are left unconsumed after the whole ancestry was walked,
\* the command fails, its error names exactly those targets, nothing is
\* printed and the commits file is as it was.
C4_NotFoundIsTotal ==
  (pc \in {"output", "done"} /\ idx = Len(commit_list) /\ input_set # {}) =>
    /\ pc = "done"
    /\ result # None
    /\ ~result[1].ok
    /\ result[1].detail = Targets \ Range(sorted_commits)
    /\ result[1].detail = input_set
    /\ stdout = <<>>
    /\ file = file0

\* C4 witness: an in-place sort ended with one target consumed and one left
C4_Witness ==
  /\ pc = "done"
  /\ input_set # {}
  /\ sorted_commits # <<>>
  /\ args.commits_file # None
  /\ args.in_place

\* An in-place sort of a file ended with success
InPlaceDone ==
  /\ args.command = "sort" /\ pc = "done" /\ result = Some(Ok)
  /\ args.commits_file # None /\ args.in_place

\* The hash as write_to_file writes it: expanded to the full form when git
\* resolves it
Written(hash) == expand_hash_to_full(from_hash(hash)).hash

\* The hashes of the commit lines of a file content, in file order
FileHashes(content) ==
  [i \in 1..Len(read_from_file(content).entries) |->
     read_from_file(content).entries[i].commit.hash]

\* C17: after an in-place sort succeeded, the commit lines of the file are
\* the hashes of the sorter's output (each as write_to_file writes it), in
\* the sorter's order; the file holds as many entries as before; and every
\* entry has the comment and blank lines that preceded, in the original
\* file, the commit line it was made from.
C17_FileIsSortedList ==
  InPlaceDone =>
    /\ FileHashes(file) =
         [i \in 1..Len(sorter_result[1].sorted) |->
            Written(sorter_result[1].sorted[i])]
    /\ Len(FileHashes(file)) = Len(FileHashes(file0))
    /\ \A i \in 1..Len(FileHashes(file)) :
         \E j \in 1..Len(FileHashes(file0)) :
           /\ Written(FileHashes(file0)[j]) = FileHashes(file)[i]
           /\ read_from_file(file0).entries[j].comments =
                read_from_file(file).entries[i].comments

\* A sort that prints its result ended with success
PrintedDone ==
  /\ args.command = "sort" /\ pc = "done" /\ result = Some(Ok)
  /\ ~(args.commits_file # None /\ args.in_place)

\* The line printed for a sorted hash that takes its fields from input record k
LineFrom(hash, k) ==
  to_line([hash |-> hash, change_id |-> commit_infos[k].change_id,
           title |-> commit_infos[k].title])

\* The input records with exactly this hash
SameHash(hash) == {k \in 1..Len(commit_infos) : commit_infos[k].hash = hash}

\* The input records whose hash is a prefix of this hash or has it as prefix
EitherPrefix(hash) ==
  {k \in 1..Len(commit_infos) :
     \/ starts_with(commit_infos[k].hash, hash)
     \/ starts_with(hash, commit_infos[k].hash)}

ResolvesInAncestry(target) ==
  \E i \in 1..Len(commit_list) :
    \/ starts_with(commit_list[i], target)
    \/ starts_with(target, commit_list[i])

\* C19: once the ancestry was walked, the sorter returns an ordering exactly
\* when every target is a prefix of some hash of the ancestry or has one as
\* a prefix; two targets that abbreviate the same commit do not make it fail.
C19_SucceedsIffAllResolve ==
  (SorterSucceeded \/ SorterNotFound) =>
    (SorterSucceeded <=> \A target \in Targets : ResolvesInAncestry(target))

(***************************************************************************)
(* Claims about the fix command                                            *)
(***************************************************************************)
FixEnded == args.command = "fix" /\ pc = "done" /\ result = Some(Ok)

\* The hashes of the commit lines fix printed (the lines after the modeline)
EmittedLines == IF stdout = <<>> THEN <<>> ELSE Tail(stdout)

EmittedHash(i) == split_whitespace(EmittedLines[i])[1]

Emitted == {EmittedHash(i) : i \in 1..Len(EmittedLines)}

\* C8: every fix find_fixes_for_commit returned, for whichever original of
\* whichever commit of (base, HEAD], is on exactly one line of the emitted
\* list, and the list holds nothing else.
C8_EachFixOnce ==
  FixEnded =>
    /\ \A p \in returned :
         Cardinality({i \in 1..Len(EmittedLines) : EmittedHash(i) = p[2]}) = 1
    /\ Emitted \subseteq {p[2] : p \in returned}

\* C8 witness: the command ended and one fix was returned for two originals
C8_Witness ==
  /\ FixEnded
  /\ \E p, q \in returned : p[2] = q[2] /\ p[1] # q[1]

\* The commit with hash h
IdOf(h) == CHOOSE id \in Ids : Repo[id].hash = h

\* The commits of (base, HEAD]
BaseToHead ==
  IF Resolve(args.base) = None THEN {}
  ELSE Ancestors(head) \ Ancestors(Resolve(args.base)[1])

\* The Change-Id of a commit: the value of its first Change-Id trailer
ChangeIdOf(id) ==
  LET m == Repo[id].message
      at == {i \in 1..Len(m) : starts_with(m[i], "Change-Id: I")}
  IN  IF at = {} THEN None ELSE Some(SubSeq(m[SetMin(at)], 12, Len(m[SetMin(at)])))

\* A commit of (base, HEAD] has the text "Change-Id: <id of f>" in its message
ChangeIdOnBranch(f) ==
  /\ ChangeIdOf(f) # None
  /\ \E c \in BaseToHead : \E i \in 1..Len(Repo[c].message) :
       contains(Repo[c].message[i], "Change-Id: " \o ChangeIdOf(f)[1])

\* A commit of (base, HEAD] has a "cherry picked from commit" trailer with the
\* full hash of f or its first 7 characters
CherryPickedOnBranch(f) ==
  \E c \in BaseToHead : \E i \in 1..Len(Repo[c].message) :
    \/ contains(Repo[c].message[i], "cherry picked from commit " \o Repo[f].hash)
    \/ contains(Repo[c].message[i],
                "cherry picked from commit " \o SubSeq(Repo[f].hash, 1, 7))

AlreadyOnBranch(f) ==
  f \in Ancestors(head) \/ ChangeIdOnBranch(f) \/ CherryPickedOnBranch(f)

\* C9: no emitted fix is an ancestor of HEAD, has its Change-Id in a message
\* of (base, HEAD], or is named, by full or 7-character hash, in a cherry-pick
\* trailer of (base, HEAD]; and every hit of a fix search that is none of the
\* three is emitted.
C9_EmittedNotApplied ==
  FixEnded =>
    /\ \A h \in Emitted : ~AlreadyOnBranch(IdOf(h))
    /\ \A p \in fix_hits : ~AlreadyOnBranch(IdOf(p[2])) => p[2] \in Emitted

\* C9 witness: fixes were emitted, and three hits were left out: F4 is an
\* ancestor of HEAD, F3 has its Change-Id on the branch, F2 was cherry-picked
C9_Witness ==
  /\ FixEnded
  /\ Emitted # {}
  /\ {H_F4, H_F3, H_F2} \subseteq {p[2] : p \in fix_hits} \ Emitted

\* C10: a later commit is classified one way only for an original with short
\* hash S: no commit is both returned as a fix of the original and warned
\* about as an unmarked reference to it, and a commit whose message contains
\* "Fixes: S" gets no warning for that original.
C10_ClassifiedOneWay ==
  \A i \in 1..Len(warn_log) :
    /\ <<warn_log[i].original, warn_log[i].reference>> \notin returned
    /\ ~Matches(IdOf(warn_log[i].reference),
                "Fixes: " \o SubSeq(warn_log[i].original, 1, 7))

\* The file holds a commit line: a line that is neither blank nor a comment
FileHasCommitLine ==
  \E i \in 1..Len(lines(file)) : IsCommitLine(lines(file)[i])

\* C12: read_from_file fails, with "No commits found in file", exactly when
\* the file has no commit line; a file with a commit line is read, one entry
\* per commit line, whatever its other lines hold.
C12_RejectedIffNoCommit ==
  pc \in {"parsed", "done"} =>
    /\ FileHasCommitLine <=> (pc = "parsed" /\ result = None)
    /\ ~FileHasCommitLine <=>
         (pc = "done" /\ result = Some(Err("No commits found in file", {})))
    /\ pc = "parsed" =>
         Len(entries) = Cardinality({i \in 1..Len(lines(file)) :
                                       IsCommitLine(lines(file)[i])})

\* C12 witness: a file with a comment, a blank line and one commit line, whose
\* hash names no single object, was read
C12_Witness ==
  /\ pc = "parsed"
  /\ file = FileOf(<<"# picked for v2", "", "deadbee Unknown thing">>)
  /\ Len(entries) = 1

\* What fix wrote to stdout, as the content of a file
StdoutText == IF stdout = <<>> THEN "" ELSE FileOf(stdout)

\* C13: after every run of fix that succeeds, the empty range and the run that
\* finds no unapplied fix included, read_from_file accepts what was written
\* to stdout and yields exactly the emitted fix commits, in order.
C13_StdoutIsCommitList ==
  FixEnded =>
    /\ read_from_file(StdoutText).ok
    /\ [i \in 1..Len(read_from_file(StdoutText).entries) |->
          read_from_file(StdoutText).entries[i].commit] = fix_commits

\* The Was-Change-Id trailer values of a commit, in message order
WasChangeIdsOf(id) ==
  LET m == SelectSeq(Repo[id].message,
                     LAMBDA l : starts_with(l, "Was-Change-Id: I"))
  IN  [i \in 1..Len(m) |-> SubSeq(m[i], 16, Len(m[i]))]

\* The first hit of the search for a Change-Id on the reference branch: the
\* newest commit of its history with "Change-Id: <id>" in its message
FirstHit(change_id) ==
  LET hits == IF Resolve(args.ref_branch) = None THEN {}
              ELSE {c \in Ancestors(Resolve(args.ref_branch)[1]) :
                      Matches(c, "Change-Id: " \o change_id)}
  IN  IF hits = {} THEN None
      ELSE Some(Repo[CHOOSE c \in hits :
                       \A d \in hits : Repo[d].time <= Repo[c].time].hash)

\* What C16 says of the originals found for the commit with hash h
OriginalsAsClaimed(h, found) ==
  LET own == FirstHit(ChangeIdOf(IdOf(h))[1])
      was == WasChangeIdsOf(IdOf(h))
      hits == (IF ChangeIdOf(IdOf(h)) = None \/ own = None THEN {} ELSE {own[1]})
                \cup {FirstHit(was[i])[1] :
                        i \in {j \in 1..Len(was) : FirstHit(was[j]) # None}}
  IN  /\ \A i, j \in 1..Len(found) : i # j => found[i] # found[j]
      /\ Range(found) = hits
      /\ (ChangeIdOf(IdOf(h)) # None /\ own # None) => found[1] = own[1]
      /\ found = <<>> <=> hits = {}

\* C16: the originals find_all_original_commits returns for a commit of the
\* range are the first hits of the searches for its own Change-Id and for
\* each of its Was-Change-Id values on the reference branch: every hit is in
\* the list, nothing else is, no hash is there twice, the hit of the own
\* Change-Id comes first, and the list is empty exactly when no search hit.
C16_OriginalsAreTheHits ==
  [][(pc = "commits" /\ originals = <<>> /\ pending # <<>>)
       => OriginalsAsClaimed(Head(pending).hash, originals')]_vars

\* C16 witness: the originals of P3 were looked up on main; its own Change-Id
\* and its first Was-Change-Id find the same commit, its second and third
\* Was-Change-Id find another one
C16_Witness ==
  /\ args.command = "fix" /\ pc = "commits"
  /\ head = "P3" /\ args.ref_branch = "main"
  /\ pending = <<>>
  /\ originals = <<H_O1, H_O2>>

(***************************************************************************)
(* Claims about enrichment                                                 *)
(***************************************************************************)
\* The methods of calls i..j, in order
Ops(i, j) == [k \in 1..(j - i + 1) |-> calls[i + k - 1].op]

EnrichOnce == <<"fetch_change_id_if_missing", "fetch_title_if_missing">>

\* C11: with the repository fixed, fetch_change_id_if_missing and
\* fetch_title_if_missing called twice leave the record (hash, change_id,
\* title) as calling them once did, a method called twice in a row changes
\* nothing the second time, and no call changes a change_id or title that
\* was set before it.
C11_EnrichmentIdempotent ==
  /\ \A i \in 1..Len(calls) :
       /\ calls[i].before.change_id # None
            => calls[i].after.change_id = calls[i].before.change_id
       /\ calls[i].before.title # None
            => calls[i].after.title = calls[i].before.title
  /\ \A i \in 1..(Len(calls) - 1) :
       calls[i].op = calls[i + 1].op => calls[i + 1].after = calls[i].after
  /\ \A i \in 1..(Len(calls) - 3) :
       (Ops(i, i + 3) = EnrichOnce \o EnrichOnce)
         => calls[i + 3].after = calls[i + 1].after

\* C11 witness: a record constructed from an abbreviated hash alone was
\* enriched twice, and the first enrichment set its three fields
C11_Witness ==
  /\ Len(calls) = 4
  /\ Ops(1, 4) = EnrichOnce \o EnrichOnce
  /\ record0 = from_hash("deadbee1")
  /\ calls[2].after = [hash |-> H_O1, change_id |-> Some(CID_A),
                       title |-> Some("Add parser")]

\* The rev-parse subprocesses among the queries of call i
RevParses(i) ==
  SelectSeq(calls[i].queries, LAMBDA q : q[1] = "rev-parse")

\* The hash expansion acts in call i
Expands(i) == calls[i].op \in {"expand_hash_to_full", "fetch_title_if_missing"}

\* C15: expand_hash_to_full, alone or at the start of fetch_title_if_missing
\* (title set or not), spawns no rev-parse and keeps the hash when the hash
\* has 40 characters; on a hash of another length it asks rev-parse once and
\* takes the answer only when the query succeeded and the answer has 40
\* characters, else keeps the hash; it leaves change_id and title alone. After
\* any calls the hash is the original one or has 40 characters.
C15_HashCanonical ==
  /\ \A i \in 1..Len(calls) :
       /\ (Expands(i) /\ Len(calls[i].before.hash) = 40) =>
            /\ calls[i].after.hash = calls[i].before.hash
            /\ RevParses(i) = <<>>
       /\ (Expands(i) /\ Len(calls[i].before.hash) # 40) =>
            /\ RevParses(i) = <<<<"rev-parse", calls[i].before.hash>>>>
            /\ calls[i].after.hash =
                 IF /\ git_rev_parse(calls[i].before.hash).ok
                    /\ Len(trim(git_rev_parse(calls[i].before.hash).stdout)) = 40
                 THEN trim(git_rev_parse(calls[i].before.hash).stdout)
                 ELSE calls[i].before.hash
       /\ ~Expands(i) => calls[i].after.hash = calls[i].before.hash
       /\ calls[i].op = "expand_hash_to_full" =>
            /\ calls[i].after.change_id = calls[i].before.change_id
            /\ calls[i].after.title = calls[i].before.title
  /\ record.hash = record0.hash \/ Len(record.hash) = 40

\* C15 witness: fetch_title_if_missing expanded an abbreviated hash and, called
\* again with the title set, spawned nothing
C15_Witness ==
  /\ Len(calls) >= 2
  /\ calls[1].op = "fetch_title_if_missing"
  /\ calls[1].before.hash = "deadbee1" /\ calls[1].before.title # None
  /\ calls[1].after.hash = H_O1
  /\ calls[2].op = "fetch_title_if_missing" /\ calls[2].queries = <<>>

(***************************************************************************)
(* Claims about both commands                                              *)
(***************************************************************************)
\* sort got its input: targets on the command line, or a file with a commit
SortHasInput == args.commits_file = None \/ read_from_file(file0).ok

\* C14: when the listing a command rests on exits non-zero (rev-list of
\* base..HEAD in fix, rev-list --topo-order of the reference in sort) the
\* command fails with an error that ends in git's stderr and prints nothing
\* (sort leaves the file alone); when the listing succeeds, no failing lookup
\* of a single commit or message search makes the command fail: fix succeeds,
\* sort fails only for targets not found, and with a reference branch git
\* cannot resolve fix finds nothing and warns about nothing.
C14_FailuresByKind ==
  /\ (args.command = "fix" /\ pc = "done") =>
       IF ~git_rev_list_reverse(args.base, "HEAD").ok
       THEN /\ result = Some(Err("git rev-list failed: " \o GitFatal, {}))
            /\ stdout = <<>>
       ELSE /\ result = Some(Ok)
            /\ Resolve(args.ref_branch) = None =>
                 /\ stdout \in {<<>>, <<DefaultModeline>>}
                 /\ warn_log = <<>>
  /\ (args.command = "sort" /\ pc = "done" /\ SortHasInput) =>
       IF ~ancestry.ok
       THEN /\ result = Some(Err("git rev-list: " \o GitFatal, {}))
            /\ stdout = <<>>
            /\ file = file0
       ELSE \/ result = Some(Ok)
            \/ /\ result # None
               /\ result[1].error = "Some commits not found in HEAD history"

\* C14 witness: fix ran on a range of commits with a reference branch git does
\* not know, so that every search on it failed, and succeeded
C14_Witness ==
  /\ args.command = "fix" /\ pc = "done"
  /\ args.ref_branch = "nosuch"
  /\ git_rev_list_reverse(args.base, "HEAD").stdout # ""
  /\ result = Some(Ok)
  /\ stdout = <<DefaultModeline>>

====
